---- MODULE Spec2Model ----
(***************************************************************************)
(* Commitment lifecycle ledger (contracts/commitment_core) together with   *)
(* the two collaborators it calls: the asset token and the position-token  *)
(* registry (contracts/commitment_nft).                                    *)
(*                                                                         *)
(* Every public entry point is one action.  A Soroban invocation is        *)
(* atomic: fail() emits an event and panics, and the host discards every   *)
(* storage write of the aborted invocation.  An action therefore either    *)
(* applies all effects of the handler (collaborator calls included) or     *)
(* leaves the ledger as it was; in both cases it records the call and its  *)
(* outcome in `last`.                                                      *)
(*                                                                         *)
(* The ledger invokes the registry by method name ("mint", "settle"); the  *)
(* model binds the owner / token id it passes to the registry method of    *)
(* that name and takes the registry's caller to be the ledger contract.    *)
(***************************************************************************)
EXTENDS Integers, Sequences, FiniteSets, TLC

\* ------------------------------------------------------------------ bounds
MaxCommitments == 1      \* create_commitment calls that may succeed
MaxDays        == 1      \* days the ledger clock may advance
MaxRecords     == 2      \* create_commitment calls that may succeed (SpecRecords)
MaxAttestations == 2     \* entries the attestation logs may hold
MaxFees        == 30     \* largest total of the fees recorded for a commitment
MaxTokens      == 2      \* position tokens that may be minted (SpecTokens)

\* ------------------------------------------------------- program constants
SecondsPerDay == 86400

\* --------------------------------------------------------------- addresses
NoAddress     == "none"          \* Option::None for a stored Address
ZeroAddress   == "GAAA_zero"
Admin         == "admin"
CoreAddress   == "core"          \* e.current_contract_address(): custody
AllocContract == "alloc"
Updater       == "upd"
Pool          == "pool"
Owners        == {"alice", "bob", "carol"}
\* Accounts the asset token has deauthorized: they hold a balance, and every
\* transfer out of them traps.
Deauthorized  == {"carol"}
Accounts      == Owners \cup {Admin, CoreAddress, AllocContract, Updater, Pool, ZeroAddress}

\* ------------------------------------------------------------ input ranges
InitialBalance == [a \in Accounts |-> IF a = "alice" THEN 2000
                                       ELSE IF a = "carol" THEN 1000 ELSE 0]
NewValues      == {-1, 700, 890, 900}
ExitCallers    == {"alice", "bob"}
AllocAmounts   == {0, 900}
AdminCallers   == {Admin, "alice"}
GoodRules      == [duration_days |-> 1, max_loss_percent |-> 10,
                   commitment_type |-> "balanced", early_exit_penalty |-> 10,
                   min_fee_threshold |-> 0, grace_period_days |-> 0]
\* create_commitment(owner, amount, rules): one accepted call and one call
\* for each check that can reject it.
CreateInputs   == { <<"alice", 1000, GoodRules>>,
                    <<ZeroAddress, 1000, GoodRules>>,
                    <<"alice", 0, GoodRules>>,
                    <<"alice", 1000, [GoodRules EXCEPT !.duration_days = 0]>>,
                    <<"alice", 1000, [GoodRules EXCEPT !.max_loss_percent = 101]>>,
                    <<"alice", 1000, [GoodRules EXCEPT !.commitment_type = "risky"]>>,
                    <<"bob", 1000, GoodRules>>,
                    <<"carol", 1000, GoodRules>> }
\* update_value(caller, _, new_value): the admin with every value, the other
\* callers with one value.
ValueInputs    == {<<Admin, v>> : v \in NewValues}
                    \cup {<<AllocContract, 900>>, <<Updater, 900>>, <<"bob", 900>>}

\* create_commitment with every rule field inside and outside its range.
RecordCreateInputs ==
  { <<"alice", 1000, GoodRules>>,
    <<"alice", 1000, [GoodRules EXCEPT !.early_exit_penalty = 101,
                                       !.min_fee_threshold = -1]>>,
    <<"alice", 1000, [GoodRules EXCEPT !.duration_days = 0]>>,
    <<"alice", 1000, [GoodRules EXCEPT !.max_loss_percent = 101]>>,
    <<"alice", 1000, [GoodRules EXCEPT !.commitment_type = "risky"]>> }
\* update_value with a loss at the limit, a loss above it and a gain.
RecordValues == {700, 900, 1005}

VARIABLES
  admin,                \* DataKey::Admin (NoAddress before initialize)
  allocation_contract,  \* DataKey::AllocationContract
  authorized_updaters,  \* DataKey::AuthorizedUpdaters (Vec<Address>)
  paused,               \* Pausable::PAUSED_KEY
  reentrancy_guard,     \* DataKey::ReentrancyGuard
  commitments,          \* DataKey::Commitment(id) -> Commitment
  owner_commitments,    \* DataKey::OwnerCommitments(owner) -> Vec<id>
  total_commitments,    \* DataKey::TotalCommitments
  total_value_locked,   \* DataKey::TotalValueLocked
  balances,             \* asset token: address -> balance
  token_counter,        \* registry DataKey::TokenCounter
  nfts,                 \* registry DataKey::NFT(token_id) -> CommitmentNFT
  owner_balance,        \* registry DataKey::OwnerBalance(owner) -> u32
  owner_tokens,         \* registry DataKey::OwnerTokens(owner) -> Vec<u32>
  now,                  \* e.ledger().timestamp()
  pending,              \* the invocation that is inside a collaborator call
  last,                 \* the latest invocation and its outcome
  merge_side,           \* attestation engine: the side of the merge that is built
  engine_admin,         \* attestation engine DataKey::Admin / "ADMIN"
  engine_core,          \* attestation engine DataKey::CommitmentCore / "CORE"
  attestations,         \* DataKey::Attestations(id) / ("ATTS", id) -> Vec<Attestation>
  health_state          \* DataKey::HealthState(id) -> HealthState

ledger == <<admin, allocation_contract, authorized_updaters, paused,
            reentrancy_guard, commitments, owner_commitments,
            total_commitments, total_value_locked>>
collab == <<balances, token_counter, nfts, owner_balance, owner_tokens>>
vars   == <<admin, allocation_contract, authorized_updaters, paused,
            reentrancy_guard, commitments, owner_commitments,
            total_commitments, total_value_locked, balances, token_counter,
            nfts, owner_balance, owner_tokens, now, pending, last, merge_side, engine_admin, engine_core,
            attestations, health_state>>
engine == <<merge_side, engine_admin, engine_core, attestations, health_state>>

\* ----------------------------------------------------------------- helpers
\* Rust integer division truncates toward zero.
TruncDiv(a, b) ==
  IF a >= 0 THEN a \div b ELSE -((-a) \div b)

RECURSIVE DecimalDigits(_)
DecimalDigits(n) ==
  IF n < 10 THEN <<n>> ELSE Append(DecimalDigits(n \div 10), n % 10)

\* Variant of generate_commitment_id that writes the last digit only.
generate_commitment_id_last_digit(counter) ==
  <<"c", "_">> \o <<counter % 10>>

\* "c_" followed by the decimal digits of the counter.
generate_commitment_id(counter) ==
  <<"c", "_">> \o DecimalDigits(counter)

CallRecord(op, caller, id, value, err) ==
  [op |-> op, caller |-> caller, id |-> id, value |-> value, err |-> err]

has_commitment(id) == id \in DOMAIN commitments

\* No invocation is in flight.
NoCall == [op |-> "none"]

\* The ids a caller may name: every stored one and one that is not stored.
IdInputs == DOMAIN commitments \cup {generate_commitment_id(total_commitments)}

\* Vec::iter().position + Vec::remove: drop the first occurrence.
RECURSIVE RemoveFirst(_, _)
RemoveFirst(s, x) ==
  IF s = <<>> THEN <<>>
  ELSE IF Head(s) = x THEN Tail(s)
  ELSE <<Head(s)>> \o RemoveFirst(Tail(s), x)

Contains(s, x) == \E i \in 1..Len(s) : s[i] = x

remove_from_owner_commitments(oc, owner, id) ==
  [oc EXCEPT ![owner] = RemoveFirst(oc[owner], id)]

\* token::Client::transfer: aborts when the sender's balance is too small.
CanTransfer(bal, from, amount) ==
  amount >= 0 /\ bal[from] >= amount /\ from \notin Deauthorized
Transfer(bal, from, to, amount) ==
  IF from = to THEN bal
  ELSE [bal EXCEPT ![from] = @ - amount, ![to] = @ + amount]

\* -------------------------------------------------------------------- init
InitLedger ==
  /\ admin = NoAddress
  /\ allocation_contract = NoAddress
  /\ authorized_updaters = <<>>
  /\ paused = FALSE
  /\ reentrancy_guard = FALSE
  /\ commitments = <<>>
  /\ owner_commitments = [o \in Owners |-> <<>>]
  /\ total_commitments = 0
  /\ total_value_locked = 0
  /\ balances = InitialBalance
  /\ token_counter = 0
  /\ nfts = <<>>
  /\ owner_balance = <<>>
  /\ owner_tokens = <<>>
  /\ now = 0
  /\ pending = NoCall
  /\ last = CallRecord("deploy", NoAddress, <<>>, 0, "ok")
  /\ engine_admin = NoAddress
  /\ engine_core = NoAddress
  /\ attestations = <<>>
  /\ health_state = <<>>

\* attestation_engine/src/lib.rs holds both sides of a merge that was never
\* resolved: the side marked feat/compliance-verification and the side it was
\* merged into.  A build takes one of them.
MergeSides == {"feat", "main"}

Init == InitLedger /\ merge_side = "feat"

\* --------------------------------------- shared_utils (not in the sources)
Pausable_require_not_paused == ~paused
Validation_require_positive(amount) == amount > 0
Validation_require_non_negative(value) == value >= 0
Validation_require_valid_duration(duration_days) == duration_days > 0
Validation_require_valid_percent(percent) == percent <= 100
Validation_require_valid_commitment_type(t, valid_types) == t \in valid_types
\* Some(timestamp + days * 86400); None needs a sum above 2^64 - 1, which no
\* clock value and duration of this model comes near.
TimeUtils_checked_calculate_expiration(timestamp, duration_days) ==
  timestamp + duration_days * SecondsPerDay
SafeMath_penalty_amount(value, penalty_percent) ==
  TruncDiv(value * penalty_percent, 100)
SafeMath_sub(a, b) == a - b
\* floor((amount - current_value) * 100 / amount), for amount > 0
SafeMath_loss_percent(amount, current_value) ==
  ((amount - current_value) * 100) \div amount

\* ------------------------------------------------- access-control helpers
\* Variant of require_admin_error that does not compare the caller with the
\* stored admin.
require_admin_error_any_caller(caller) ==
  IF admin = NoAddress THEN "NotInitialized" ELSE "ok"

require_admin_error(caller) ==
  IF admin = NoAddress THEN "NotInitialized"
  ELSE IF caller # admin THEN "Unauthorized"
  ELSE "ok"

add_authorized_updater(updaters, updater) ==
  IF Contains(updaters, updater) THEN updaters ELSE Append(updaters, updater)

remove_authorized_updater(updaters, updater) ==
  RemoveFirst(updaters, updater)

\* The inline check of update_value: admin or the allocation contract.
update_value_is_authorized(caller) ==
  \/ caller = admin
  \/ (allocation_contract # NoAddress /\ caller = allocation_contract)

validate_rules_error(rules) ==
  IF ~Validation_require_valid_duration(rules.duration_days) THEN "InvalidDuration"
  ELSE IF ~Validation_require_valid_percent(rules.max_loss_percent) THEN "InvalidMaxLossPercent"
  ELSE IF ~Validation_require_valid_commitment_type(rules.commitment_type,
                                                    {"safe", "balanced", "aggressive"})
       THEN "InvalidCommitmentType"
  ELSE "ok"

\* ------------------------------------------------- position-token registry
\* Deployment of the registry: initialized, the ledger registered as its core
\* contract, not paused, no emergency mode, its own latch free.
NftCoreContract == CoreAddress
nft_paused      == FALSE

is_valid_commitment_type(t) == t = "safe" \/ t = "balanced" \/ t = "aggressive"

nft_mint_error(caller, duration_days, max_loss_percent, commitment_type, initial_amount) ==
  IF nft_paused THEN "NftPaused"
  ELSE IF caller # NftCoreContract THEN "NftNotAuthorized"
  ELSE IF duration_days = 0 THEN "NftInvalidDuration"
  ELSE IF max_loss_percent > 100 THEN "NftInvalidMaxLoss"
  ELSE IF ~is_valid_commitment_type(commitment_type) THEN "NftInvalidCommitmentType"
  ELSE IF initial_amount <= 0 THEN "NftInvalidAmount"
  ELSE "ok"

\* CommitmentNFTContract::balance_of, the read of DataKey::OwnerBalance
balance_of(owner) ==
  IF owner \in DOMAIN owner_balance THEN owner_balance[owner] ELSE 0

\* the read of DataKey::OwnerTokens, an empty Vec when the key is absent
tokens_of(owner) ==
  IF owner \in DOMAIN owner_tokens THEN owner_tokens[owner] ELSE <<>>

\* storage set: the key is created or overwritten
StorageSet(map, key, value) ==
  [k \in DOMAIN map \cup {key} |-> IF k = key THEN value ELSE map[k]]

nft_mint_owner_balance(owner) ==
  StorageSet(owner_balance, owner, balance_of(owner) + 1)

nft_mint_owner_tokens(owner) ==
  StorageSet(owner_tokens, owner, Append(tokens_of(owner), token_counter))

nft_mint(owner, duration_days) ==
  nfts @@ (token_counter :>
             [owner |-> owner, token_id |-> token_counter, is_active |-> TRUE,
              expires_at |-> now + duration_days * SecondsPerDay])

\* CommitmentNFTContract::settle
nft_settle_error(token_id) ==
  IF nft_paused THEN "NftPaused"
  ELSE IF token_id \notin DOMAIN nfts THEN "NftTokenNotFound"
  ELSE IF ~nfts[token_id].is_active THEN "NftAlreadySettled"
  ELSE IF now < nfts[token_id].expires_at THEN "NftNotExpired"
  ELSE "ok"

nft_settle_keeping_flag(token_id) == nfts
nft_settle(token_id) == [nfts EXCEPT ![token_id].is_active = FALSE]

\* ----------------------------------------------------------- the handlers
\* Each *_error operator walks the handler's checks in source order and
\* names the first one that aborts the invocation ("ok" when none does).

Rollback == UNCHANGED <<ledger, collab, now, pending>>

initialize(new_admin) ==
  LET err == IF admin # NoAddress THEN "AlreadyInitialized" ELSE "ok" IN
  /\ IF err = "ok"
     THEN /\ admin' = new_admin
          /\ total_commitments' = 0
          /\ total_value_locked' = 0
          /\ paused' = FALSE
          /\ UNCHANGED <<allocation_contract, authorized_updaters,
                         reentrancy_guard, commitments, owner_commitments,
                         collab, now, pending>>
     ELSE Rollback
  /\ UNCHANGED engine
  /\ last' = CallRecord("initialize", new_admin, <<>>, 0, err)

pause(caller) ==
  LET err == require_admin_error(caller) IN
  /\ IF err = "ok"
     THEN /\ paused' = TRUE
          /\ UNCHANGED <<admin, allocation_contract, authorized_updaters,
                         reentrancy_guard, commitments, owner_commitments,
                         total_commitments, total_value_locked, collab, now, pending>>
     ELSE Rollback
  /\ UNCHANGED engine
  /\ last' = CallRecord("pause", caller, <<>>, 0, err)

unpause(caller) ==
  LET err == require_admin_error(caller) IN
  /\ IF err = "ok"
     THEN /\ paused' = FALSE
          /\ UNCHANGED <<admin, allocation_contract, authorized_updaters,
                         reentrancy_guard, commitments, owner_commitments,
                         total_commitments, total_value_locked, collab, now, pending>>
     ELSE Rollback
  /\ UNCHANGED engine
  /\ last' = CallRecord("unpause", caller, <<>>, 0, err)

set_allocation_contract(caller, new_contract) ==
  LET err == require_admin_error(caller) IN
  /\ IF err = "ok"
     THEN /\ allocation_contract' = new_contract
          /\ UNCHANGED <<admin, authorized_updaters, paused,
                         reentrancy_guard, commitments, owner_commitments,
                         total_commitments, total_value_locked, collab, now, pending>>
     ELSE Rollback
  /\ UNCHANGED engine
  /\ last' = CallRecord("set_allocation_contract", caller, <<>>, 0, err)

add_updater(caller, updater) ==
  LET err == require_admin_error(caller) IN
  /\ IF err = "ok"
     THEN /\ authorized_updaters' = add_authorized_updater(authorized_updaters, updater)
          /\ UNCHANGED <<admin, allocation_contract, paused,
                         reentrancy_guard, commitments, owner_commitments,
                         total_commitments, total_value_locked, collab, now, pending>>
     ELSE Rollback
  /\ UNCHANGED engine
  /\ last' = CallRecord("add_updater", caller, <<>>, 0, err)

remove_updater(caller, updater) ==
  LET err == require_admin_error(caller) IN
  /\ IF err = "ok"
     THEN /\ authorized_updaters' = remove_authorized_updater(authorized_updaters, updater)
          /\ UNCHANGED <<admin, allocation_contract, paused,
                         reentrancy_guard, commitments, owner_commitments,
                         total_commitments, total_value_locked, collab, now, pending>>
     ELSE Rollback
  /\ UNCHANGED engine
  /\ last' = CallRecord("remove_updater", caller, <<>>, 0, err)

\* create_commitment: checks up to the first storage write.
create_commitment_error(owner, amount, rules) ==
  IF reentrancy_guard THEN "ReentrancyDetected"
  ELSE IF ~Pausable_require_not_paused THEN "ContractPaused"
  ELSE IF owner = ZeroAddress THEN "ZeroAddress"
  ELSE IF ~Validation_require_positive(amount) THEN "InvalidAmount"
  ELSE IF validate_rules_error(rules) # "ok" THEN validate_rules_error(rules)
  ELSE IF balances[owner] < amount THEN "InsufficientBalance"
  ELSE IF TimeUtils_checked_calculate_expiration(now, rules.duration_days) < 0
       THEN "ExpirationOverflow"
  ELSE IF admin = NoAddress THEN "NotInitialized"
  ELSE IF has_commitment(generate_commitment_id(total_commitments)) THEN "InvalidStatus"
  ELSE "ok"

\* ... and the two interactions that follow the writes.
create_commitment_interaction_error(owner, amount, rules) ==
  IF ~CanTransfer(balances, owner, amount) THEN "TokenTransferFailed"
  ELSE nft_mint_error(CoreAddress, rules.duration_days, rules.max_loss_percent,
                      rules.commitment_type, amount)

\* Variant of new_commitment that leaves current_value at 0.
new_commitment_without_value(commitment_id, owner, amount, rules, nft_token_id) ==
  [commitment_id |-> commitment_id,
   owner         |-> owner,
   nft_token_id  |-> nft_token_id,
   rules         |-> rules,
   amount        |-> amount,
   asset_address |-> "asset",
   created_at    |-> now,
   expires_at    |-> TimeUtils_checked_calculate_expiration(now, rules.duration_days),
   current_value |-> 0,
   status        |-> "active"]

new_commitment(commitment_id, owner, amount, rules, nft_token_id) ==
  [commitment_id |-> commitment_id,
   owner         |-> owner,
   nft_token_id  |-> nft_token_id,
   rules         |-> rules,
   amount        |-> amount,
   asset_address |-> "asset",
   created_at    |-> now,
   expires_at    |-> TimeUtils_checked_calculate_expiration(now, rules.duration_days),
   current_value |-> amount,
   status        |-> "active"]

\* The outcome of the whole handler: the first check or interaction that
\* aborts it.
create_commitment_outcome(owner, amount, rules) ==
  LET pre == create_commitment_error(owner, amount, rules) IN
  IF pre # "ok" THEN pre
  ELSE create_commitment_interaction_error(owner, amount, rules)

create_commitment(owner, amount, rules) ==
  LET err  == create_commitment_outcome(owner, amount, rules)
      commitment_id == generate_commitment_id(total_commitments)
  IN
  /\ IF err = "ok"
     THEN /\ commitments' = commitments @@
                (commitment_id :> new_commitment(commitment_id, owner, amount,
                                                 rules, token_counter))
          /\ owner_commitments' =
                [owner_commitments EXCEPT ![owner] = Append(@, commitment_id)]
          /\ total_commitments' = total_commitments + 1
          /\ total_value_locked' = total_value_locked + amount
          /\ balances' = Transfer(balances, owner, CoreAddress, amount)
          /\ nfts' = nft_mint(owner, rules.duration_days)
          /\ owner_balance' = nft_mint_owner_balance(owner)
          /\ owner_tokens' = nft_mint_owner_tokens(owner)
          /\ token_counter' = token_counter + 1
          /\ reentrancy_guard' = FALSE
          /\ UNCHANGED <<admin, allocation_contract, authorized_updaters,
                         paused, now, pending>>
     ELSE Rollback
  /\ UNCHANGED engine
  /\ last' = CallRecord("create_commitment", owner,
                        IF err = "ok" THEN commitment_id ELSE <<>>, amount, err)

\* Variant of update_value_error that omits the status check.
update_value_error_skips_status(caller, commitment_id, new_value) ==
  IF admin = NoAddress THEN "NotInitialized"
  ELSE IF ~update_value_is_authorized(caller) THEN "Unauthorized"
  ELSE IF ~Validation_require_non_negative(new_value) THEN "InvalidAmount"
  ELSE IF ~has_commitment(commitment_id) THEN "CommitmentNotFound"
  ELSE "ok"

\* Variant of update_value_error that lets a negative new_value through.
update_value_error_accepts_negative(caller, commitment_id, new_value) ==
  IF admin = NoAddress THEN "NotInitialized"
  ELSE IF ~update_value_is_authorized(caller) THEN "Unauthorized"
  ELSE IF ~has_commitment(commitment_id) THEN "CommitmentNotFound"
  ELSE IF commitments[commitment_id].status # "active" THEN "NotActive"
  ELSE "ok"

\* update_value: every check (the handler makes no collaborator call).
update_value_error(caller, commitment_id, new_value) ==
  IF admin = NoAddress THEN "NotInitialized"
  ELSE IF ~update_value_is_authorized(caller) THEN "Unauthorized"
  ELSE IF ~Validation_require_non_negative(new_value) THEN "InvalidAmount"
  ELSE IF ~has_commitment(commitment_id) THEN "CommitmentNotFound"
  ELSE IF commitments[commitment_id].status # "active" THEN "NotActive"
  ELSE "ok"

update_value_loss_percent(amount, new_value) ==
  IF amount > 0 THEN TruncDiv((amount - new_value) * 100, amount) ELSE 0

\* Variant of update_value_violated that counts a loss equal to the limit.
update_value_violated_inclusive(amount, new_value, max_loss_percent) ==
  update_value_loss_percent(amount, new_value) >= max_loss_percent

update_value_violated(amount, new_value, max_loss_percent) ==
  update_value_loss_percent(amount, new_value) > max_loss_percent

update_value(caller, commitment_id, new_value) ==
  LET err == update_value_error(caller, commitment_id, new_value) IN
  /\ IF err = "ok"
     THEN LET c         == commitments[commitment_id]
              old_value == c.current_value
              violated  == update_value_violated(c.amount, new_value,
                                                 c.rules.max_loss_percent)
          IN
          /\ commitments' =
                [commitments EXCEPT
                   ![commitment_id].current_value = new_value,
                   ![commitment_id].status = IF violated THEN "violated" ELSE @]
          /\ total_value_locked' = total_value_locked - old_value + new_value
          /\ UNCHANGED <<admin, allocation_contract, authorized_updaters,
                         paused, reentrancy_guard, owner_commitments,
                         total_commitments, collab, now, pending>>
     ELSE Rollback
  /\ UNCHANGED engine
  /\ last' = CallRecord("update_value", caller, commitment_id, new_value, err)

\* Variant of settle_error that looks at the status before the expiry.
settle_error_status_first(commitment_id) ==
  IF reentrancy_guard THEN "ReentrancyDetected"
  ELSE IF ~Pausable_require_not_paused THEN "ContractPaused"
  ELSE IF ~has_commitment(commitment_id) THEN "CommitmentNotFound"
  ELSE IF commitments[commitment_id].status = "settled" THEN "AlreadySettled"
  ELSE IF commitments[commitment_id].status # "active" THEN "NotActive"
  ELSE IF now < commitments[commitment_id].expires_at THEN "NotExpired"
  ELSE "ok"

\* settle: checks up to the first storage write.
settle_error(commitment_id) ==
  IF reentrancy_guard THEN "ReentrancyDetected"
  ELSE IF ~Pausable_require_not_paused THEN "ContractPaused"
  ELSE IF ~has_commitment(commitment_id) THEN "CommitmentNotFound"
  ELSE IF now < commitments[commitment_id].expires_at THEN "NotExpired"
  ELSE IF commitments[commitment_id].status = "settled" THEN "AlreadySettled"
  ELSE IF commitments[commitment_id].status # "active" THEN "NotActive"
  ELSE "ok"

settle_amount(c) == c.current_value

settle_new_tvl(current_tvl, settlement_amount) ==
  IF current_tvl > settlement_amount THEN current_tvl - settlement_amount ELSE 0

\* ... and the token transfer and registry call that follow the writes.
settle_interaction_error(c) ==
  IF ~CanTransfer(balances, CoreAddress, settle_amount(c)) THEN "TokenTransferFailed"
  ELSE IF admin = NoAddress THEN "NotInitialized"
  ELSE nft_settle_error(c.nft_token_id)

settle(commitment_id) ==
  LET pre == settle_error(commitment_id)
      err == IF pre # "ok" THEN pre
             ELSE settle_interaction_error(commitments[commitment_id])
  IN
  /\ IF err = "ok"
     THEN LET c == commitments[commitment_id]
              settlement_amount == settle_amount(c)
          IN
          /\ commitments' = [commitments EXCEPT ![commitment_id].status = "settled"]
          /\ owner_commitments' =
                remove_from_owner_commitments(owner_commitments, c.owner, commitment_id)
          /\ total_value_locked' = settle_new_tvl(total_value_locked, settlement_amount)
          /\ balances' = Transfer(balances, CoreAddress, c.owner, settlement_amount)
          /\ nfts' = nft_settle(c.nft_token_id)
          /\ reentrancy_guard' = FALSE
          /\ UNCHANGED <<admin, allocation_contract, authorized_updaters,
                         paused, total_commitments, token_counter, owner_balance,
                         owner_tokens, now, pending>>
     ELSE Rollback
  /\ UNCHANGED engine
  /\ last' = CallRecord("settle", NoAddress, commitment_id, 0, err)

\* Variant of early_exit_error that omits the owner check.
early_exit_error_any_caller(commitment_id, caller) ==
  IF reentrancy_guard THEN "ReentrancyDetected"
  ELSE IF ~Pausable_require_not_paused THEN "ContractPaused"
  ELSE IF ~has_commitment(commitment_id) THEN "CommitmentNotFound"
  ELSE IF commitments[commitment_id].status # "active" THEN "NotActive"
  ELSE "ok"

\* early_exit: checks up to the first storage write.
early_exit_error(commitment_id, caller) ==
  IF reentrancy_guard THEN "ReentrancyDetected"
  ELSE IF ~Pausable_require_not_paused THEN "ContractPaused"
  ELSE IF ~has_commitment(commitment_id) THEN "CommitmentNotFound"
  ELSE IF commitments[commitment_id].owner # caller THEN "Unauthorized"
  ELSE IF commitments[commitment_id].status # "active" THEN "NotActive"
  ELSE "ok"

early_exit_penalty_amount(c) ==
  SafeMath_penalty_amount(c.current_value, c.rules.early_exit_penalty)

early_exit_returned_amount(c) ==
  SafeMath_sub(c.current_value, early_exit_penalty_amount(c))

\* Variant of early_exit_commitment that clears the locked amount as well.
early_exit_commitment_clearing_amount(c) ==
  [c EXCEPT !.status = "early_exit", !.current_value = 0, !.amount = 0]

\* The record as early_exit stores it: status and value are overwritten
\* before the aggregate is adjusted.
early_exit_commitment(c) ==
  [c EXCEPT !.status = "early_exit", !.current_value = 0]

\* new_tvl = current_tvl - commitment.current_value, read from the record
\* that was just stored.
early_exit_new_tvl(current_tvl, stored) == current_tvl - stored.current_value

\* ... and the token transfer and registry call ("settle") that follow.
early_exit_interaction_error(c) ==
  IF early_exit_returned_amount(c) > 0
     /\ ~CanTransfer(balances, CoreAddress, early_exit_returned_amount(c))
  THEN "TokenTransferFailed"
  ELSE IF admin = NoAddress THEN "NotInitialized"
  ELSE nft_settle_error(c.nft_token_id)

early_exit(commitment_id, caller) ==
  LET pre == early_exit_error(commitment_id, caller)
      err == IF pre # "ok" THEN pre
             ELSE early_exit_interaction_error(commitments[commitment_id])
  IN
  /\ IF err = "ok"
     THEN LET c        == commitments[commitment_id]
              returned == early_exit_returned_amount(c)
              stored   == early_exit_commitment(c)
          IN
          /\ commitments' = [commitments EXCEPT ![commitment_id] = stored]
          /\ total_value_locked' = early_exit_new_tvl(total_value_locked, stored)
          /\ balances' = IF returned > 0
                         THEN Transfer(balances, CoreAddress, c.owner, returned)
                         ELSE balances
          /\ nfts' = nft_settle(c.nft_token_id)
          /\ reentrancy_guard' = FALSE
          /\ UNCHANGED <<admin, allocation_contract, authorized_updaters,
                         paused, owner_commitments, total_commitments,
                         token_counter, owner_balance, owner_tokens,
                         now, pending>>
     ELSE Rollback
  /\ UNCHANGED engine
  /\ last' = CallRecord("early_exit", caller, commitment_id, 0, err)

\* Variant of allocate_error that does not look at the status.
allocate_error_any_status(commitment_id, amount) ==
  IF reentrancy_guard THEN "ReentrancyDetected"
  ELSE IF ~Pausable_require_not_paused THEN "ContractPaused"
  ELSE IF amount <= 0 THEN "InvalidAmount"
  ELSE IF ~has_commitment(commitment_id) THEN "CommitmentNotFound"
  ELSE IF commitments[commitment_id].current_value < amount THEN "InsufficientBalance"
  ELSE "ok"

\* allocate: checks up to the first storage write.
allocate_error(commitment_id, amount) ==
  IF reentrancy_guard THEN "ReentrancyDetected"
  ELSE IF ~Pausable_require_not_paused THEN "ContractPaused"
  ELSE IF amount <= 0 THEN "InvalidAmount"
  ELSE IF ~has_commitment(commitment_id) THEN "CommitmentNotFound"
  ELSE IF commitments[commitment_id].status # "active" THEN "NotActive"
  ELSE IF commitments[commitment_id].current_value < amount THEN "InsufficientBalance"
  ELSE "ok"

allocate_interaction_error(amount) ==
  IF ~CanTransfer(balances, CoreAddress, amount) THEN "TokenTransferFailed" ELSE "ok"

allocate(commitment_id, target_pool, amount) ==
  LET pre == allocate_error(commitment_id, amount)
      err == IF pre # "ok" THEN pre ELSE allocate_interaction_error(amount)
  IN
  /\ IF err = "ok"
     THEN /\ commitments' =
                [commitments EXCEPT ![commitment_id].current_value = @ - amount]
          /\ balances' = Transfer(balances, CoreAddress, target_pool, amount)
          /\ reentrancy_guard' = FALSE
          /\ UNCHANGED <<admin, allocation_contract, authorized_updaters,
                         paused, owner_commitments, total_commitments,
                         total_value_locked, token_counter, nfts, owner_balance,
                         owner_tokens, now, pending>>
     ELSE Rollback
  /\ UNCHANGED engine
  /\ last' = CallRecord("allocate", target_pool, commitment_id, amount, err)

check_violations_loss_percent(amount, current_value) ==
  IF amount > 0 THEN SafeMath_loss_percent(amount, current_value) ELSE 0

\* Variant of check_violations_result that takes the term to end only after
\* expires_at.
check_violations_result_after_expiry(c, current_time) ==
  IF c.status # "active" THEN FALSE
  ELSE \/ check_violations_loss_percent(c.amount, c.current_value)
            > c.rules.max_loss_percent
       \/ current_time > c.expires_at

\* check_violations on a stored record: what it returns.
check_violations_result(c, current_time) ==
  IF c.status # "active" THEN FALSE
  ELSE LET loss_violated ==
             check_violations_loss_percent(c.amount, c.current_value)
               > c.rules.max_loss_percent
           duration_violated == current_time >= c.expires_at
       IN  loss_violated \/ duration_violated

\* check_violations reads only; `last.value` holds the boolean it returns.
\* Variant of check_violations that stores the verdict in the record.
check_violations_marking(commitment_id) ==
  LET err == IF ~has_commitment(commitment_id) THEN "CommitmentNotFound" ELSE "ok"
      violated == err = "ok" /\ check_violations_result(commitments[commitment_id], now)
  IN
  /\ UNCHANGED engine
  /\ last' = CallRecord("check_violations", NoAddress, commitment_id, violated, err)
  /\ commitments' = IF violated
                     THEN [commitments EXCEPT ![commitment_id].status = "violated"]
                     ELSE commitments
  /\ UNCHANGED <<admin, allocation_contract, authorized_updaters, paused,
                 reentrancy_guard, owner_commitments, total_commitments,
                 total_value_locked, collab, now, pending>>

check_violations(commitment_id) ==
  LET err == IF ~has_commitment(commitment_id) THEN "CommitmentNotFound" ELSE "ok" IN
  /\ UNCHANGED engine
  /\ last' = CallRecord("check_violations", NoAddress, commitment_id,
                        IF err = "ok"
                        THEN check_violations_result(commitments[commitment_id], now)
                        ELSE FALSE,
                        err)
  /\ UNCHANGED <<ledger, collab, now, pending>>

\* Variant of get_violation_details_result that counts a loss equal to the
\* limit as a violation.
get_violation_details_result_inclusive(c, current_time) ==
  LET loss_amount  == c.amount - c.current_value
      loss_percent == IF c.amount > 0 THEN TruncDiv(loss_amount * 100, c.amount) ELSE 0
      loss_violated     == loss_percent >= c.rules.max_loss_percent
      duration_violated == current_time >= c.expires_at
      time_remaining    == IF current_time < c.expires_at
                           THEN c.expires_at - current_time ELSE 0
  IN  <<loss_violated \/ duration_violated, loss_violated, duration_violated,
        loss_percent, time_remaining>>

\* get_violation_details on a stored record: (has_violations, loss_violated,
\* duration_violated, loss_percent, time_remaining).
get_violation_details_result(c, current_time) ==
  LET loss_amount  == c.amount - c.current_value
      loss_percent == IF c.amount > 0 THEN TruncDiv(loss_amount * 100, c.amount) ELSE 0
      loss_violated     == loss_percent > c.rules.max_loss_percent
      duration_violated == current_time >= c.expires_at
      time_remaining    == IF current_time < c.expires_at
                           THEN c.expires_at - current_time ELSE 0
  IN  <<loss_violated \/ duration_violated, loss_violated, duration_violated,
        loss_percent, time_remaining>>

\* get_violation_details reads only; `last.value` holds the tuple it returns.
get_violation_details(commitment_id) ==
  LET err == IF ~has_commitment(commitment_id) THEN "CommitmentNotFound" ELSE "ok" IN
  /\ UNCHANGED engine
  /\ last' = CallRecord("get_violation_details", NoAddress, commitment_id,
                        IF err = "ok"
                        THEN get_violation_details_result(commitments[commitment_id], now)
                        ELSE <<>>,
                        err)
  /\ UNCHANGED <<ledger, collab, now, pending>>

\* get_commitment: the stored record, or fail(CommitmentNotFound)
get_commitment(commitment_id) ==
  LET err == IF ~has_commitment(commitment_id) THEN "CommitmentNotFound" ELSE "ok" IN
  /\ UNCHANGED engine
  /\ last' = CallRecord("get_commitment", NoAddress, commitment_id,
                        IF err = "ok" THEN commitments[commitment_id] ELSE <<>>,
                        err)
  /\ UNCHANGED <<ledger, collab, now, pending>>

\* The ledger clock moves forward between invocations.
Tick ==
  /\ pending = NoCall
  /\ now + SecondsPerDay <= MaxDays * SecondsPerDay
  /\ now' = now + SecondsPerDay
  /\ UNCHANGED engine
  /\ last' = CallRecord("tick", NoAddress, <<>>, 0, "ok")
  /\ UNCHANGED <<ledger, collab, pending>>

\* ------------------------------------------- inside a collaborator call
\* create_commitment, settle, early_exit and allocate write their effects,
\* with the latch set, and then call the asset token and the registry.  A
\* collaborator may call back into the ledger before it returns.  The four
\* *_call actions stop the handler at that point; collaborator_returns runs it
\* to its end.  While `pending` holds a frame, every ledger action is a call
\* nested in that frame.

\* The storage an aborted invocation is rolled back to.
Snapshot ==
  [commitments |-> commitments, owner_commitments |-> owner_commitments,
   total_commitments |-> total_commitments,
   total_value_locked |-> total_value_locked]

Frame(op, caller, id, value, rules) ==
  [op |-> op, caller |-> caller, id |-> id, value |-> value, rules |-> rules,
   saved |-> Snapshot]

\* Variant of set_reentrancy_guard that stores the flag as set whatever the
\* value it is given.
set_reentrancy_guard_always_set(value) == TRUE

\* The value set_reentrancy_guard stores under DataKey::ReentrancyGuard.
set_reentrancy_guard(value) == value

create_commitment_call(owner, amount, rules) ==
  LET commitment_id == generate_commitment_id(total_commitments) IN
  /\ create_commitment_error(owner, amount, rules) = "ok"
  /\ reentrancy_guard' = set_reentrancy_guard(TRUE)
  /\ commitments' = commitments @@
        (commitment_id :> new_commitment(commitment_id, owner, amount, rules, 0))
  /\ owner_commitments' =
        [owner_commitments EXCEPT ![owner] = Append(@, commitment_id)]
  /\ total_commitments' = total_commitments + 1
  /\ total_value_locked' = total_value_locked + amount
  /\ pending' = Frame("create_commitment", owner, commitment_id, amount, rules)
  /\ UNCHANGED <<admin, allocation_contract, authorized_updaters, paused,
                 collab, now, last, engine>>

settle_call(commitment_id) ==
  /\ settle_error(commitment_id) = "ok"
  /\ LET c == commitments[commitment_id] IN
     /\ reentrancy_guard' = set_reentrancy_guard(TRUE)
     /\ commitments' = [commitments EXCEPT ![commitment_id].status = "settled"]
     /\ owner_commitments' =
           remove_from_owner_commitments(owner_commitments, c.owner, commitment_id)
     /\ total_value_locked' = settle_new_tvl(total_value_locked, settle_amount(c))
     /\ pending' = Frame("settle", NoAddress, commitment_id, 0, c.rules)
  /\ UNCHANGED <<admin, allocation_contract, authorized_updaters, paused,
                 total_commitments, collab, now, last, engine>>

early_exit_call(commitment_id, caller) ==
  /\ early_exit_error(commitment_id, caller) = "ok"
  /\ LET c      == commitments[commitment_id]
         stored == early_exit_commitment(c)
     IN
     /\ reentrancy_guard' = set_reentrancy_guard(TRUE)
     /\ commitments' = [commitments EXCEPT ![commitment_id] = stored]
     /\ total_value_locked' = early_exit_new_tvl(total_value_locked, stored)
     /\ pending' = Frame("early_exit", caller, commitment_id, 0, c.rules)
  /\ UNCHANGED <<admin, allocation_contract, authorized_updaters, paused,
                 owner_commitments, total_commitments, collab, now, last, engine>>

allocate_call(commitment_id, target_pool, amount) ==
  /\ allocate_error(commitment_id, amount) = "ok"
  /\ reentrancy_guard' = set_reentrancy_guard(TRUE)
  /\ commitments' =
        [commitments EXCEPT ![commitment_id].current_value = @ - amount]
  /\ pending' = Frame("allocate", target_pool, commitment_id, amount,
                      commitments[commitment_id].rules)
  /\ UNCHANGED <<admin, allocation_contract, authorized_updaters, paused,
                 owner_commitments, total_commitments, total_value_locked,
                 collab, now, last, engine>>

\* The interactions of the frame, on the record the handler holds in its
\* local variable (the stored one at entry).
collaborator_error(f) ==
  LET c == f.saved.commitments[f.id] IN
  IF f.op = "create_commitment"
    THEN create_commitment_interaction_error(f.caller, f.value, f.rules)
  ELSE IF f.op = "settle" THEN settle_interaction_error(c)
  ELSE IF f.op = "early_exit" THEN early_exit_interaction_error(c)
  ELSE allocate_interaction_error(f.value)

\* Variant of fail that returns the error without a panic: the writes made
\* so far stand, the latch is cleared.
fail_without_panic(f) ==
  /\ reentrancy_guard' = FALSE
  /\ UNCHANGED <<commitments, owner_commitments, total_commitments,
                 total_value_locked, collab>>

\* fail() inside the frame, or a trap in a collaborator: the invocation
\* panics and the host restores the storage it started from.
fail(f) ==
  /\ reentrancy_guard' = FALSE
  /\ commitments' = f.saved.commitments
  /\ owner_commitments' = f.saved.owner_commitments
  /\ total_commitments' = f.saved.total_commitments
  /\ total_value_locked' = f.saved.total_value_locked
  /\ UNCHANGED collab

\* The collaborators return.  On success the handler finishes: the token and
\* registry effects stand, create_commitment stores its local record again
\* (now with the token id) and the latch is cleared.  On failure the host
\* discards every write of the invocation, nested calls included.
collaborator_returns ==
  LET f   == pending
      err == collaborator_error(f)
  IN
  /\ pending # NoCall
  /\ IF err = "ok"
     THEN /\ reentrancy_guard' = set_reentrancy_guard(FALSE)
          /\ IF f.op = "create_commitment"
             THEN /\ commitments' =
                       [commitments EXCEPT ![f.id] =
                          new_commitment(f.id, f.caller, f.value, f.rules,
                                         token_counter)]
                  /\ balances' = Transfer(balances, f.caller, CoreAddress, f.value)
                  /\ nfts' = nft_mint(f.caller, f.rules.duration_days)
                  /\ owner_balance' = nft_mint_owner_balance(f.caller)
                  /\ owner_tokens' = nft_mint_owner_tokens(f.caller)
                  /\ token_counter' = token_counter + 1
             ELSE LET c == f.saved.commitments[f.id] IN
                  /\ commitments' = commitments
                  /\ token_counter' = token_counter
                  /\ UNCHANGED <<owner_balance, owner_tokens>>
                  /\ IF f.op = "settle"
                     THEN /\ balances' = Transfer(balances, CoreAddress, c.owner,
                                                  settle_amount(c))
                          /\ nfts' = nft_settle(c.nft_token_id)
                     ELSE IF f.op = "early_exit"
                     THEN /\ balances' =
                               IF early_exit_returned_amount(c) > 0
                               THEN Transfer(balances, CoreAddress, c.owner,
                                             early_exit_returned_amount(c))
                               ELSE balances
                          /\ nfts' = nft_settle(c.nft_token_id)
                     ELSE /\ balances' = Transfer(balances, CoreAddress, f.caller,
                                                  f.value)
                          /\ nfts' = nfts
          /\ UNCHANGED <<owner_commitments, total_commitments, total_value_locked>>
     ELSE fail(f)
  /\ pending' = NoCall
  /\ UNCHANGED engine
  /\ last' = CallRecord(f.op, f.caller,
                        IF f.op = "create_commitment" /\ err # "ok" THEN <<>> ELSE f.id,
                        f.value, err)
  /\ UNCHANGED <<admin, allocation_contract, authorized_updaters, paused, now>>

\* ------------------------------------ position-token registry: entry points
\* CommitmentNFTContract::transfer, the checks in the order of the code
nft_transfer_error(from, to, token_id) ==
  IF nft_paused THEN "NftPaused"
  ELSE IF to = from THEN "NftTransferToZeroAddress"
  ELSE IF token_id \notin DOMAIN nfts THEN "NftTokenNotFound"
  ELSE IF nfts[token_id].owner # from THEN "NftNotOwner"
  ELSE IF nfts[token_id].is_active THEN "NftNFTLocked"
  ELSE "ok"

\* transfer: the balance of `from` is lowered only when it is above zero
nft_transfer_from_balance(from) ==
  IF balance_of(from) > 0
  THEN StorageSet(owner_balance, from, balance_of(from) - 1)
  ELSE owner_balance

nft_transfer_owner_balance(from, to) ==
  LET from_balance == balance_of(from)
      to_balance   == balance_of(to)
  IN  StorageSet(nft_transfer_from_balance(from), to, to_balance + 1)

nft_transfer_owner_tokens(from, to, token_id) ==
  LET from_tokens == RemoveFirst(tokens_of(from), token_id)
      removed     == StorageSet(owner_tokens, from, from_tokens)
      to_tokens   == IF to \in DOMAIN removed THEN removed[to] ELSE <<>>
  IN  StorageSet(removed, to, Append(to_tokens, token_id))

RegistryFrame == UNCHANGED <<ledger, balances, token_counter, now, pending, engine>>

nft_transfer(from, to, token_id) ==
  LET err == nft_transfer_error(from, to, token_id) IN
  /\ pending = NoCall
  /\ IF err = "ok"
     THEN /\ nfts' = [nfts EXCEPT ![token_id].owner = to]
          /\ owner_balance' = nft_transfer_owner_balance(from, to)
          /\ owner_tokens' = nft_transfer_owner_tokens(from, to, token_id)
     ELSE UNCHANGED <<nfts, owner_balance, owner_tokens>>
  /\ RegistryFrame
  /\ last' = CallRecord("nft_transfer", from, token_id, to, err)

\* CommitmentNFTContract::mark_inactive: no caller is named or checked
nft_mark_inactive_error(token_id) ==
  IF nft_paused THEN "NftPaused"
  ELSE IF token_id \notin DOMAIN nfts THEN "NftTokenNotFound"
  ELSE IF ~nfts[token_id].is_active THEN "NftAlreadySettled"
  ELSE "ok"

nft_mark_inactive(caller, token_id) ==
  LET err == nft_mark_inactive_error(token_id) IN
  /\ pending = NoCall
  /\ IF err = "ok"
     THEN nfts' = [nfts EXCEPT ![token_id].is_active = FALSE]
     ELSE UNCHANGED nfts
  /\ UNCHANGED <<owner_balance, owner_tokens>>
  /\ RegistryFrame
  /\ last' = CallRecord("nft_mark_inactive", caller, token_id, 0, err)

\* CommitmentNFTContract::settle invoked directly: no caller is named or checked
nft_settle_entry(caller, token_id) ==
  LET err == nft_settle_error(token_id) IN
  /\ pending = NoCall
  /\ IF err = "ok"
     THEN nfts' = nft_settle(token_id)
     ELSE UNCHANGED nfts
  /\ UNCHANGED <<owner_balance, owner_tokens>>
  /\ RegistryFrame
  /\ last' = CallRecord("nft_settle", caller, token_id, 0, err)

\* ------------------------------------------------------ attestation engine
\* The engine keeps an attestation log and a HealthState per commitment id
\* and reads commitments from the ledger.  No handler of it checks the caller,
\* and a failure is a panic: the host discards the invocation's writes.
EngineAddress == "engine"        \* e.current_contract_address() of the engine
Verifier      == "verifier"
Outsider      == "mallory"
NoData        == <<>>            \* Map::new
FeeData(text) == "fee_amount" :> text

EngineInitInputs == {<<Admin, CoreAddress>>, <<Outsider, Pool>>}
EngineIds        == {generate_commitment_id(0), generate_commitment_id(1)}
EngineValues     == {1790, 2020}
AttestInputs     == { <<Verifier, "health_check", NoData>>,
                      <<Outsider, "violation", NoData>> }
FeeAttestInputs  == { <<Verifier, "fee_generation", FeeData("10")>>,
                      <<Verifier, "fee_generation", FeeData("20")>> }
FeeAmounts       == {10, 20, -5}
DrawdownInputs   == {5, 15}
ComplianceRules  == {GoodRules, [GoodRules EXCEPT !.min_fee_threshold = 10]}
ComplianceValues == {1790, 1400}

\* The whitelist of verifiers the engine stores: DataKey has no entry for
\* one, and no handler reads or writes one.
verifier_whitelist == {}

get_health_state_or_default(commitment_id) ==
  IF commitment_id \in DOMAIN health_state
  THEN health_state[commitment_id]
  ELSE [fees_generated |-> 0, volatility_exposure |-> 0,
        last_attestation |-> 0, compliance_score |-> 0]

get_attestations_result(commitment_id) ==
  IF commitment_id \in DOMAIN attestations
  THEN attestations[commitment_id]
  ELSE <<>>

\* get_commitment_core and core_get_commitment: the stored reference must be
\* there, must be the ledger, and the ledger must hold the commitment.
core_get_commitment_error(commitment_id) ==
  IF engine_core = NoAddress THEN "panic"
  ELSE IF engine_core # CoreAddress THEN "panic"
  ELSE IF ~has_commitment(commitment_id) THEN "panic"
  ELSE "ok"

core_check_violations(commitment_id) ==
  check_violations_result(commitments[commitment_id], now)

\* feat side.  saturating_mul saturates at the i128 limit, far above every
\* value here.
calc_drawdown_percent(initial_value, current_value) ==
  IF initial_value <= 0 THEN 0
  ELSE LET loss == initial_value - current_value IN
       IF loss <= 0 THEN 0
       ELSE TruncDiv(loss * 100, initial_value)

\* main side, inline in get_health_metrics and calculate_compliance_score:
\* checked_sub, checked_mul, checked_div on the signed difference.
inline_drawdown_percent(initial_value, current_value) ==
  IF initial_value > 0
  THEN TruncDiv((initial_value - current_value) * 100, initial_value)
  ELSE 0

MaxTimestamp(atts) ==
  IF Len(atts) = 0 THEN 0
  ELSE LET ts == {atts[i].timestamp : i \in 1..Len(atts)} IN
       CHOOSE m \in ts : \A t \in ts : t <= m

Clamp(score) == IF score < 0 THEN 0 ELSE IF score > 100 THEN 100 ELSE score

\* main side: the score computed from the log and the commitment.  total_fees
\* is the constant 0, so the fee bonus never applies.
calculate_compliance_score_main(commitment_id) ==
  LET c     == commitments[commitment_id]
      atts  == get_attestations_result(commitment_id)
      violation_count ==
        Cardinality({i \in 1..Len(atts) :
                       ~atts[i].is_compliant \/ atts[i].attestation_type = "violation"})
      drawdown_percent == inline_drawdown_percent(c.amount, c.current_value)
      over_threshold ==
        IF c.amount > 0 /\ drawdown_percent > c.rules.max_loss_percent
        THEN drawdown_percent - c.rules.max_loss_percent
        ELSE 0
      total_duration == c.expires_at - c.created_at
      elapsed == IF now >= c.created_at THEN now - c.created_at ELSE 0
      on_track ==
        /\ c.expires_at > c.created_at
        /\ TruncDiv(elapsed * 100, total_duration) <= 100
  IN  Clamp(100 - violation_count * 20 - over_threshold
            + (IF on_track THEN 10 ELSE 0))

\* feat side: HealthMetrics from the ledger and the stored HealthState.
get_health_metrics_feat(commitment_id) ==
  LET c     == commitments[commitment_id]
      state == get_health_state_or_default(commitment_id)
  IN  [commitment_id       |-> commitment_id,
       current_value       |-> c.current_value,
       initial_value       |-> c.amount,
       drawdown_percent    |-> calc_drawdown_percent(c.amount, c.current_value),
       fees_generated      |-> state.fees_generated,
       volatility_exposure |-> state.volatility_exposure,
       last_attestation    |-> state.last_attestation,
       compliance_score    |-> state.compliance_score]

\* main side: HealthMetrics from the ledger and the attestation log.
get_health_metrics_main(commitment_id) ==
  LET c == commitments[commitment_id] IN
  [commitment_id       |-> commitment_id,
   current_value       |-> c.current_value,
   initial_value       |-> c.amount,
   drawdown_percent    |-> inline_drawdown_percent(c.amount, c.current_value),
   fees_generated      |-> 0,
   volatility_exposure |-> 0,
   last_attestation    |-> MaxTimestamp(get_attestations_result(commitment_id)),
   compliance_score    |-> calculate_compliance_score_main(commitment_id)]

get_health_metrics_result(commitment_id) ==
  IF merge_side = "feat"
  THEN get_health_metrics_feat(commitment_id)
  ELSE get_health_metrics_main(commitment_id)

\* feat side; the main side returns true.
verify_compliance_result(commitment_id) ==
  IF merge_side = "main" THEN TRUE
  ELSE
  LET c      == commitments[commitment_id]
      health == get_health_metrics_feat(commitment_id)
      has_violations == core_check_violations(commitment_id)
      loss_ok     == health.drawdown_percent <= c.rules.max_loss_percent
      duration_ok == c.rules.duration_days = 0 \/ now <= c.expires_at
      fee_ok      == \/ c.rules.min_fee_threshold <= 0
                     \/ health.fees_generated >= c.rules.min_fee_threshold
      overall_health_ok ==
        health.compliance_score = 0 \/ health.compliance_score >= 80
      status_ok   == c.status # "violated"
  IN  loss_ok /\ duration_ok /\ fee_ok /\ overall_health_ok
        /\ ~has_violations /\ status_ok

EngineFrame == UNCHANGED <<ledger, collab, now, pending, merge_side>>
EngineRollback ==
  UNCHANGED <<engine_admin, engine_core, attestations, health_state>>

\* initialize of the engine: stores both values, whatever is stored already.
engine_initialize(new_admin, commitment_core) ==
  /\ engine_admin' = new_admin
  /\ engine_core' = commitment_core
  /\ UNCHANGED <<attestations, health_state>>
  /\ EngineFrame
  /\ last' = CallRecord("engine_initialize", new_admin, <<>>, commitment_core, "ok")

\* Variant of attestations_push_back that keeps the new entry only.
attestations_push_back_replacing(list, att) == <<att>>

attestations_push_back(list, att) == Append(list, att)

\* The feat side computes is_compliant with verify_compliance, which reads the
\* commitment from the ledger; the main side sets it to true and calls nobody.
attest_error(commitment_id) ==
  IF merge_side = "feat" THEN core_get_commitment_error(commitment_id) ELSE "ok"

new_attestation(commitment_id, attestation_type, data, verified_by) ==
  [commitment_id    |-> commitment_id,
   timestamp        |-> now,
   attestation_type |-> attestation_type,
   data             |-> data,
   is_compliant     |-> verify_compliance_result(commitment_id),
   verified_by      |-> verified_by]

\* What a completed attest writes: the log entry and, on the feat side, the
\* time of the last attestation.
attest_writes(commitment_id, attestation_type, data, verified_by) ==
  /\ attestations' =
       (commitment_id :>
          attestations_push_back(
            get_attestations_result(commitment_id),
            new_attestation(commitment_id, attestation_type, data, verified_by)))
       @@ attestations
  /\ health_state' =
       IF merge_side = "feat"
       THEN (commitment_id :>
               [get_health_state_or_default(commitment_id)
                  EXCEPT !.last_attestation = now])
            @@ health_state
       ELSE health_state

attest(commitment_id, attestation_type, data, verified_by) ==
  LET err == attest_error(commitment_id) IN
  /\ IF err = "ok"
     THEN /\ attest_writes(commitment_id, attestation_type, data, verified_by)
          /\ UNCHANGED <<engine_admin, engine_core>>
     ELSE EngineRollback
  /\ EngineFrame
  /\ last' = CallRecord("attest", verified_by, commitment_id,
                        <<attestation_type, data>>, err)

get_attestations(commitment_id) ==
  /\ EngineRollback
  /\ EngineFrame
  /\ last' = CallRecord("get_attestations", NoAddress, commitment_id,
                        get_attestations_result(commitment_id), "ok")

get_health_metrics(commitment_id) ==
  LET err == core_get_commitment_error(commitment_id) IN
  /\ EngineRollback
  /\ EngineFrame
  /\ last' = CallRecord("get_health_metrics", NoAddress, commitment_id,
                        IF err = "ok"
                        THEN get_health_metrics_result(commitment_id)
                        ELSE <<>>,
                        err)

record_fees_state(state, fee_amount) ==
  [state EXCEPT !.fees_generated = @ + fee_amount]

\* feat side: adds the amount to the stored HealthState.  main side: an empty
\* body.
record_fees(commitment_id, fee_amount) ==
  /\ health_state' =
       IF merge_side = "feat"
       THEN (commitment_id :>
               record_fees_state(get_health_state_or_default(commitment_id),
                                 fee_amount))
            @@ health_state
       ELSE health_state
  /\ UNCHANGED <<engine_admin, engine_core, attestations>>
  /\ EngineFrame
  /\ last' = CallRecord("record_fees", NoAddress, commitment_id, fee_amount, "ok")

\* feat side: drops the percentage and records a "drawdown" attestation in the
\* engine's own name.  main side: an empty body.
record_drawdown(commitment_id, drawdown_percent) ==
  LET err == attest_error(commitment_id) IN
  /\ IF merge_side = "feat" /\ err = "ok"
     THEN /\ attest_writes(commitment_id, "drawdown", NoData, EngineAddress)
          /\ UNCHANGED <<engine_admin, engine_core>>
     ELSE EngineRollback
  /\ EngineFrame
  /\ last' = CallRecord("record_drawdown", NoAddress, commitment_id,
                        drawdown_percent, err)

\* verify_compliance reads only.  The feat side reads the commitment from the
\* ledger first; the main side returns true without reading anything.
verify_compliance_error(commitment_id) ==
  IF merge_side = "feat" THEN core_get_commitment_error(commitment_id) ELSE "ok"

verify_compliance(commitment_id) ==
  LET err == verify_compliance_error(commitment_id) IN
  /\ EngineRollback
  /\ EngineFrame
  /\ last' = CallRecord("verify_compliance", NoAddress, commitment_id,
                        IF err = "ok"
                        THEN verify_compliance_result(commitment_id)
                        ELSE FALSE,
                        err)

\* feat side: 100 for a compliant commitment and 0 otherwise.
calculate_compliance_score_feat(commitment_id) ==
  IF verify_compliance_result(commitment_id) THEN 100 ELSE 0

calculate_compliance_score_result(commitment_id) ==
  IF merge_side = "feat"
  THEN calculate_compliance_score_feat(commitment_id)
  ELSE calculate_compliance_score_main(commitment_id)

\* Both sides read the commitment from the ledger.  The feat side stores the
\* score in the HealthState; the main side stores nothing.
calculate_compliance_score(commitment_id) ==
  LET err == core_get_commitment_error(commitment_id) IN
  /\ IF err = "ok" /\ merge_side = "feat"
     THEN /\ health_state' =
               (commitment_id :>
                  [get_health_state_or_default(commitment_id)
                     EXCEPT !.compliance_score =
                       calculate_compliance_score_feat(commitment_id)])
               @@ health_state
          /\ UNCHANGED <<engine_admin, engine_core, attestations>>
     ELSE EngineRollback
  /\ EngineFrame
  /\ last' = CallRecord("calculate_compliance_score", NoAddress, commitment_id,
                        IF err = "ok"
                        THEN calculate_compliance_score_result(commitment_id)
                        ELSE 0,
                        err)

\* ------------------------------------------------------- specification
Initialize   == initialize(Admin)
Pause        == \E caller \in AdminCallers : pause(caller)
Unpause      == \E caller \in AdminCallers : unpause(caller)
SetAllocationContract ==
  \E caller \in AdminCallers : set_allocation_contract(caller, AllocContract)
AddUpdater    == \E caller \in AdminCallers : add_updater(caller, Updater)
RemoveUpdater == \E caller \in AdminCallers : remove_updater(caller, Updater)
\* At most `limit` commitments are created.
WithinLimit(limit, outcome) == outcome = "ok" => total_commitments < limit

CreateCommitment ==
  \E in \in CreateInputs :
    /\ WithinLimit(MaxCommitments, create_commitment_outcome(in[1], in[2], in[3]))
    /\ create_commitment(in[1], in[2], in[3])
UpdateValue ==
  \E in \in ValueInputs, id \in IdInputs : update_value(in[1], id, in[2])
Settle    == \E id \in IdInputs : settle(id)
EarlyExit == \E id \in IdInputs, caller \in ExitCallers : early_exit(id, caller)
Allocate  == \E id \in IdInputs, amount \in AllocAmounts : allocate(id, Pool, amount)
CheckViolations == \E id \in IdInputs : check_violations(id)
CreateCommitmentCall ==
  \E in \in CreateInputs :
    /\ total_commitments < MaxCommitments
    /\ create_commitment_call(in[1], in[2], in[3])
SettleCall    == \E id \in IdInputs : settle_call(id)
EarlyExitCall == \E id \in IdInputs, caller \in ExitCallers : early_exit_call(id, caller)
AllocateCall  ==
  \E id \in IdInputs, amount \in AllocAmounts : allocate_call(id, Pool, amount)
CollaboratorReturns == collaborator_returns
\* Calls a collaborator makes back into the ledger before it returns.
NestedCreateCommitment ==
  pending # NoCall /\ create_commitment("alice", 1000, GoodRules)
NestedUpdateValue ==
  pending # NoCall /\ \E id \in IdInputs : update_value(Admin, id, 700)
NestedSettle    == pending # NoCall /\ \E id \in IdInputs : settle(id)
NestedEarlyExit == pending # NoCall /\ \E id \in IdInputs : early_exit(id, "alice")
NestedAllocate  == pending # NoCall /\ \E id \in IdInputs : allocate(id, Pool, 900)

\* The commitment lifecycle, under the access configuration of initialize.
Next ==
  \/ Initialize
  \/ Pause
  \/ Unpause
  \/ CreateCommitment
  \/ UpdateValue
  \/ Settle
  \/ EarlyExit
  \/ Allocate
  \/ CheckViolations
  \/ Tick

Spec == Init /\ [][Next]_vars

\* The access configuration and the operation it gates.
NextAccess ==
  \/ Initialize
  \/ Pause
  \/ Unpause
  \/ SetAllocationContract
  \/ AddUpdater
  \/ RemoveUpdater
  \/ CreateCommitment
  \/ UpdateValue

SpecAccess == Init /\ [][NextAccess]_vars

\* The stored records and the two read operations on them, with rules and
\* values on both sides of every range.
CreateCommitmentAnyRules ==
  \E in \in RecordCreateInputs :
    /\ WithinLimit(MaxRecords, create_commitment_outcome(in[1], in[2], in[3]))
    /\ create_commitment(in[1], in[2], in[3])
UpdateValueAnyValue ==
  \E v \in RecordValues, id \in DOMAIN commitments : update_value(Admin, id, v)
EarlyExitByOwner ==
  \E id \in DOMAIN commitments : early_exit(id, commitments[id].owner)
GetViolationDetails == \E id \in IdInputs : get_violation_details(id)

NextRecords ==
  \/ Initialize
  \/ CreateCommitmentAnyRules
  \/ UpdateValueAnyValue
  \/ Settle
  \/ EarlyExitByOwner
  \/ GetViolationDetails
  \/ Tick

SpecRecords == Init /\ [][NextRecords]_vars

\* The attestation engine next to the ledger, built from either side of the
\* merge.
InitEngine == InitLedger /\ merge_side \in MergeSides

RECURSIVE LogEntries(_)
LogEntries(ids) ==
  IF ids = {} THEN 0
  ELSE LET id == CHOOSE x \in ids : TRUE IN
       Len(attestations[id]) + LogEntries(ids \ {id})
\* At most MaxAttestations entries are logged, over all commitments.
LogHasRoom == LogEntries(DOMAIN attestations) < MaxAttestations

EngineInitialize ==
  \E in \in EngineInitInputs : engine_initialize(in[1], in[2])
EngineCreateOne ==
  /\ WithinLimit(MaxCommitments, create_commitment_outcome("alice", 1000, GoodRules))
  /\ create_commitment("alice", 1000, GoodRules)
Attest ==
  \E in \in AttestInputs, id \in EngineIds :
    /\ LogHasRoom
    /\ attest(id, in[2], in[3], in[1])
GetAttestations  == \E id \in EngineIds : get_attestations(id)

\* The attestation log.
NextEngine ==
  \/ Initialize
  \/ EngineInitialize
  \/ EngineCreateOne
  \/ Attest
  \/ GetAttestations
  \/ Tick

SpecEngine == InitEngine /\ [][NextEngine]_vars

EngineSetUp == engine_initialize(Admin, CoreAddress)
\* One commitment that takes the whole balance of its owner.
HealthCreateCommitment ==
  /\ WithinLimit(MaxCommitments, create_commitment_outcome("alice", 2000, GoodRules))
  /\ create_commitment("alice", 2000, GoodRules)
EngineUpdateValue ==
  \E v \in EngineValues, id \in DOMAIN commitments : update_value(Admin, id, v)
AttestFees ==
  \E in \in FeeAttestInputs, id \in DOMAIN commitments :
    /\ LogHasRoom
    /\ attest(id, in[2], in[3], in[1])
RecordFees ==
  \E id \in EngineIds, fee_amount \in FeeAmounts :
    /\ get_health_state_or_default(id).fees_generated >= 0
    /\ get_health_state_or_default(id).fees_generated + fee_amount <= MaxFees
    /\ record_fees(id, fee_amount)
RecordDrawdown ==
  \E id \in DOMAIN commitments, drawdown_percent \in DrawdownInputs :
    /\ LogHasRoom
    /\ record_drawdown(id, drawdown_percent)
GetHealthMetrics == \E id \in EngineIds : get_health_metrics(id)

\* The health metrics: what is recorded and what is reported.
NextHealth ==
  \/ Initialize
  \/ EngineSetUp
  \/ HealthCreateCommitment
  \/ EngineUpdateValue
  \/ AttestFees
  \/ RecordFees
  \/ RecordDrawdown
  \/ GetHealthMetrics

SpecHealth == InitEngine /\ [][NextHealth]_vars

ComplianceCreateCommitment ==
  \E rules \in ComplianceRules :
    /\ WithinLimit(MaxCommitments, create_commitment_outcome("alice", 2000, rules))
    /\ create_commitment("alice", 2000, rules)
ComplianceUpdateValue ==
  \E v \in ComplianceValues, id \in DOMAIN commitments : update_value(Admin, id, v)
AttestViolation ==
  \E id \in DOMAIN commitments :
    /\ LogHasRoom
    /\ attest(id, "violation", NoData, Outsider)
RecordFeesKnown ==
  \E id \in DOMAIN commitments :
    /\ get_health_state_or_default(id).fees_generated + 10 <= MaxFees
    /\ record_fees(id, 10)
CalculateComplianceScore ==
  \E id \in EngineIds : calculate_compliance_score(id)
VerifyCompliance == \E id \in EngineIds : verify_compliance(id)

\* The compliance verdict and the score, over commitments in every status.
NextCompliance ==
  \/ Initialize
  \/ EngineSetUp
  \/ ComplianceCreateCommitment
  \/ ComplianceUpdateValue
  \/ Settle
  \/ EarlyExitByOwner
  \/ AttestViolation
  \/ RecordFeesKnown
  \/ CalculateComplianceScore
  \/ VerifyCompliance
  \/ GetHealthMetrics
  \/ Tick

SpecCompliance == InitEngine /\ [][NextCompliance]_vars

\* The position-token registry next to the ledger that mints and settles its
\* tokens: the entry points of the registry are open to every address.
TokenHolders  == {"alice", "bob"}
TokenIdInputs == DOMAIN nfts \cup {token_counter}

TokenCreateCommitment ==
  /\ WithinLimit(MaxTokens, create_commitment_outcome("alice", 1000, GoodRules))
  /\ create_commitment("alice", 1000, GoodRules)
TokenTransfer ==
  \E from \in TokenHolders, to \in TokenHolders, token_id \in TokenIdInputs :
    nft_transfer(from, to, token_id)
TokenMarkInactive ==
  \E token_id \in TokenIdInputs : nft_mark_inactive(Outsider, token_id)
TokenSettle ==
  \E token_id \in TokenIdInputs : nft_settle_entry(Outsider, token_id)

NextTokens ==
  \/ Initialize
  \/ TokenCreateCommitment
  \/ TokenTransfer
  \/ TokenMarkInactive
  \/ TokenSettle
  \/ Settle
  \/ EarlyExitByOwner
  \/ Tick

SpecTokens == Init /\ [][NextTokens]_vars

\* The life of the stored records: every operation that writes a commitment,
\* and the read of the whole record.
LifecycleValues == {700, 900}
LifecycleCreateCommitment ==
  /\ WithinLimit(MaxRecords, create_commitment_outcome("alice", 1000, GoodRules))
  /\ create_commitment("alice", 1000, GoodRules)
LifecycleUpdateValue ==
  \E v \in LifecycleValues, id \in DOMAIN commitments : update_value(Admin, id, v)
GetCommitment == \E id \in IdInputs : get_commitment(id)

NextLifecycle ==
  \/ Initialize
  \/ LifecycleCreateCommitment
  \/ LifecycleUpdateValue
  \/ Settle
  \/ EarlyExitByOwner
  \/ Allocate
  \/ GetCommitment
  \/ Tick

SpecLifecycle == Init /\ [][NextLifecycle]_vars

\* The operations that only read the ledger, of the ledger itself and of the
\* attestation engine, next to the operations that bring the ledger into the
\* states they read.
ReadCheckViolations     == \E id \in EngineIds : check_violations(id)
ReadGetViolationDetails == \E id \in EngineIds : get_violation_details(id)

NextReadOnly ==
  \/ Initialize
  \/ EngineSetUp
  \/ HealthCreateCommitment
  \/ EngineUpdateValue
  \/ ReadCheckViolations
  \/ ReadGetViolationDetails
  \/ AttestViolation
  \/ RecordFeesKnown
  \/ RecordDrawdown
  \/ CalculateComplianceScore
  \/ VerifyCompliance
  \/ GetHealthMetrics
  \/ GetAttestations
  \/ Tick

SpecReadOnly == InitEngine /\ [][NextReadOnly]_vars

\* The ledger with collaborators that may call back: every invocation either
\* runs in one step or stops inside its collaborator call; while it is
\* stopped there, the five mutating operations are nested calls.  update_value
\* makes no collaborator call and appears as a nested call only.
NextReentry ==
  \/ Initialize
  \/ (pending = NoCall /\ Pause)
  \/ (pending = NoCall /\ Unpause)
  \/ (pending = NoCall /\ CreateCommitment)
  \/ (pending = NoCall /\ Settle)
  \/ (pending = NoCall /\ EarlyExit)
  \/ (pending = NoCall /\ Allocate)
  \/ Tick
  \/ CreateCommitmentCall
  \/ SettleCall
  \/ EarlyExitCall
  \/ AllocateCall
  \/ NestedCreateCommitment
  \/ NestedUpdateValue
  \/ NestedSettle
  \/ NestedEarlyExit
  \/ NestedAllocate
  \/ CollaboratorReturns

SpecReentry == Init /\ [][NextReentry]_vars

\* ================================================================ claims
MutatingOps == {"create_commitment", "update_value", "settle", "early_exit", "allocate"}
LatchOps    == {"create_commitment", "settle", "early_exit", "allocate"}

Terminal == {"violated", "settled", "early_exit"}

RECURSIVE SumActiveValue(_)
SumActiveValue(ids) ==
  IF ids = {} THEN 0
  ELSE LET id == CHOOSE x \in ids : TRUE
       IN  (IF commitments[id].status = "active"
            THEN commitments[id].current_value ELSE 0)
           + SumActiveValue(ids \ {id})

\* The call recorded by a step, seen from the state before it.
Called(op, id) == last'.op = op /\ last'.id = id /\ id \in DOMAIN commitments

\* C1: in every reachable state TotalValueLocked equals the sum of
\* current_value over the commitments whose status is active.
C1_TvlEqualsActiveSum ==
  total_value_locked = SumActiveValue(DOMAIN commitments)

\* C2: a commitment's status changes only from active to violated, settled or
\* early_exit; a commitment in one of these three states keeps its status in
\* every later step.
C2_StatusOneWay ==
  [][\A id \in DOMAIN commitments :
       commitments'[id].status # commitments[id].status
         => /\ commitments[id].status = "active"
            /\ commitments'[id].status \in Terminal]_vars

\* An authorized update_value was aimed at a commitment that is no longer
\* active, and was turned away.
C2_Witness ==
  /\ last.op = "update_value"
  /\ last.err = "NotActive"
  /\ commitments[last.id].status \in Terminal

\* C3: settle of an active commitment at or after expires_at (ledger not
\* paused) succeeds, sets the status to settled and moves exactly
\* current_value from custody to the owner; with current_value still equal
\* to the locked amount the owner receives the locked amount.
C3_SettlePaysCurrentValue ==
  [][\A id \in DOMAIN commitments :
       (/\ Called("settle", id)
        /\ commitments[id].status = "active"
        /\ now >= commitments[id].expires_at
        /\ ~paused)
       => LET c == commitments[id] IN
          /\ last'.err = "ok"
          /\ commitments'[id].status = "settled"
          /\ balances'[c.owner] = balances[c.owner] + c.current_value
          /\ balances'[CoreAddress] = balances[CoreAddress] - c.current_value
          /\ (c.current_value = c.amount
                => balances'[c.owner] = balances[c.owner] + c.amount)]_vars

\* C4: settle fails with NotExpired before expires_at, otherwise with
\* AlreadySettled on a settled commitment, otherwise with NotActive on a
\* violated or early-exited one (ledger not paused); a failing settle changes
\* no commitment, owner index, TotalValueLocked or balance.
C4_SettleErrors ==
  [][/\ \A id \in DOMAIN commitments :
          (Called("settle", id) /\ ~paused)
          => LET c == commitments[id] IN
             /\ (now < c.expires_at => last'.err = "NotExpired")
             /\ (now >= c.expires_at /\ c.status = "settled"
                   => last'.err = "AlreadySettled")
             /\ (now >= c.expires_at /\ c.status \in {"violated", "early_exit"}
                   => last'.err = "NotActive")
     /\ (last'.op = "settle" /\ last'.err # "ok"
           => UNCHANGED <<commitments, owner_commitments, total_value_locked,
                          balances>>)]_vars

\* A second settle of a settled commitment was rejected.
C4_Witness ==
  /\ last.op = "settle"
  /\ last.err = "AlreadySettled"
  /\ commitments[last.id].status = "settled"

\* C5: a successful early_exit lowers TotalValueLocked by the commitment's
\* current_value as it was before the call.
C5_EarlyExitLowersTvl ==
  [][\A id \in DOMAIN commitments :
       (Called("early_exit", id) /\ last'.err = "ok")
       => total_value_locked' =
            total_value_locked - commitments[id].current_value]_vars

\* floor(current_value * early_exit_penalty / 100)
PenaltyOf(c) == (c.current_value * c.rules.early_exit_penalty) \div 100

\* C6: early_exit by the owner on an active commitment (ledger not paused)
\* sets the status to early_exit and current_value to 0 and pays the owner
\* current_value - floor(current_value * early_exit_penalty / 100).
C6_EarlyExitEffects ==
  [][\A id \in DOMAIN commitments :
       (/\ Called("early_exit", id)
        /\ last'.caller = commitments[id].owner
        /\ commitments[id].status = "active"
        /\ ~paused)
       => LET c == commitments[id] IN
          /\ commitments'[id].status = "early_exit"
          /\ commitments'[id].current_value = 0
          /\ balances'[c.owner] =
               balances[c.owner] + c.current_value - PenaltyOf(c)]_vars

\* C7: early_exit by the owner on an active commitment before expires_at
\* (ledger and registry not paused) completes, and the bound position token
\* is inactive afterwards.
C7_EarlyExitBeforeExpiry ==
  [][\A id \in DOMAIN commitments :
       (/\ Called("early_exit", id)
        /\ last'.caller = commitments[id].owner
        /\ commitments[id].status = "active"
        /\ now < commitments[id].expires_at
        /\ ~paused /\ ~nft_paused)
       => /\ last'.err = "ok"
          /\ ~nfts'[commitments[id].nft_token_id].is_active]_vars

\* C8: early_exit fails with Unauthorized for a caller that is not the owner
\* and with NotActive for the owner of a settled, violated or early-exited
\* commitment (ledger not paused); a failing early_exit changes no
\* commitment, TotalValueLocked or balance.
C8_EarlyExitErrors ==
  [][/\ \A id \in DOMAIN commitments :
          (Called("early_exit", id) /\ ~paused)
          => LET c == commitments[id] IN
             /\ (last'.caller # c.owner => last'.err = "Unauthorized")
             /\ (last'.caller = c.owner /\ c.status \in Terminal
                   => last'.err = "NotActive")
     /\ (last'.op = "early_exit" /\ last'.err # "ok"
           => UNCHANGED <<commitments, owner_commitments, total_value_locked,
                          balances>>)]_vars

\* The owner's early_exit after settle was rejected.
C8_Witness ==
  /\ last.op = "early_exit"
  /\ last.err = "NotActive"
  /\ last.caller = commitments[last.id].owner
  /\ commitments[last.id].status = "settled"

\* The three groups the access rule names.
MayUpdate(caller) ==
  \/ caller = admin
  \/ (allocation_contract # NoAddress /\ caller = allocation_contract)
  \/ Contains(authorized_updaters, caller)

Rejected(err) == err \in {"Unauthorized", "NotAuthorizedUpdater"}

\* C9: once the ledger is initialized, update_value passes the access check
\* for the admin, the allocation contract and every address currently in the
\* authorized-updater set, and rejects every other caller, leaving the
\* commitments and TotalValueLocked as they were.
C9_UpdateValueAccess ==
  [][(last'.op = "update_value" /\ admin # NoAddress)
       => /\ (MayUpdate(last'.caller) <=> ~Rejected(last'.err))
          /\ (Rejected(last'.err)
                => UNCHANGED <<commitments, total_value_locked>>)]_vars

\* floor((locked - new_value) * 100 / locked)
LossOf(locked, new_value) == ((locked - new_value) * 100) \div locked

RecordWith(locked, value) ==
  [new_commitment(generate_commitment_id(0), "alice", locked, GoodRules, 0)
     EXCEPT !.current_value = value]

\* C11: check_violations returns false for a commitment that is not active;
\* for an active one it returns true exactly when
\* floor((locked - current_value) * 100 / locked) > max_loss_percent or
\* now >= expires_at (a loss equal to the limit is no violation, now equal to
\* expires_at is one, a commitment just created is not violated); with a
\* locked amount <= 0 the loss counts as 0, so only the expiry decides.
C11_CheckViolations ==
  [][/\ \A id \in DOMAIN commitments :
          Called("check_violations", id)
          => LET c == commitments[id] IN
             /\ last'.err = "ok"
             /\ (c.status # "active" => last'.value = FALSE)
             /\ (c.status = "active"
                   => last'.value =
                        (\/ LossOf(c.amount, c.current_value) > c.rules.max_loss_percent
                         \/ now >= c.expires_at))
             /\ (c.status = "active" /\ now < c.expires_at
                  /\ LossOf(c.amount, c.current_value) = c.rules.max_loss_percent
                   => last'.value = FALSE)
             /\ (c.status = "active" /\ now = c.expires_at => last'.value = TRUE)
             /\ (c.status = "active" /\ now = c.created_at
                  /\ c.current_value = c.amount /\ c.rules.duration_days > 0
                   => last'.value = FALSE)
     /\ (last'.op = "check_violations"
           => \A locked \in {-1000, 0}, value \in {0, 700, 1000} :
                LET c == RecordWith(locked, value) IN
                /\ ~check_violations_result(c, c.expires_at - 1)
                /\ check_violations_result(c, c.expires_at))]_vars

\* check_violations at now = expires_at on an active commitment whose loss is
\* exactly the limit: the expiry alone makes it a violation.
C11_Witness ==
  /\ last.op = "check_violations"
  /\ last.err = "ok"
  /\ last.value = TRUE
  /\ commitments[last.id].status = "active"
  /\ commitments[last.id].current_value = 900
  /\ now = commitments[last.id].expires_at

\* C12: while an invocation of create_commitment, settle, early_exit or
\* allocate is inside its collaborator call (the latch is held), every nested
\* call of create_commitment, update_value, settle, early_exit or allocate
\* fails with ReentrancyDetected and changes no ledger state.
C12_NestedCallsRejected ==
  [][(/\ pending # NoCall
      /\ pending' = pending
      /\ last'.op \in MutatingOps)
     => /\ reentrancy_guard
        /\ last'.err = "ReentrancyDetected"
        /\ UNCHANGED ledger]_vars

\* C13: when a create_commitment, settle, early_exit or allocate call has
\* returned, with success or with any error, the latch is not held, and no
\* top-level call is rejected with ReentrancyDetected.
C13_LatchReleased ==
  [][/\ (last'.op \in LatchOps /\ pending' = NoCall => ~reentrancy_guard')
     /\ (pending = NoCall /\ pending' = NoCall
           => last'.err # "ReentrancyDetected")]_vars

\* A create_commitment that took the latch, was aborted by the asset token,
\* and left the latch free and no record behind.
C13_Witness ==
  /\ last.op = "create_commitment"
  /\ last.err = "TokenTransferFailed"
  /\ pending = NoCall
  /\ ~reentrancy_guard
  /\ commitments = <<>>

\* C14: while the ledger is paused, create_commitment, update_value, settle,
\* early_exit and allocate all fail and leave every commitment,
\* TotalValueLocked, TotalCommitments and every balance unchanged; after
\* unpause none of them is rejected as paused.
C14_PausedRejects ==
  [][last'.op \in MutatingOps
     => /\ (paused => /\ last'.err # "ok"
                      /\ UNCHANGED <<commitments, total_value_locked,
                                     total_commitments, balances>>)
        /\ (~paused => last'.err # "ContractPaused")]_vars

C17_AllocateEffects ==
  [][/\ \A id \in DOMAIN commitments :
          (Called("allocate", id) /\ ~paused /\ last'.value > 0)
          => LET c      == commitments[id]
                 amount == last'.value
             IN
             /\ (c.status = "active" /\ amount <= c.current_value
                   => /\ last'.err = "ok"
                      /\ commitments'[id].current_value = c.current_value - amount
                      /\ commitments'[id].status = "active"
                      /\ balances'[CoreAddress] = balances[CoreAddress] - amount
                      /\ balances'[Pool] = balances[Pool] + amount)
             /\ (c.status = "active" /\ amount > c.current_value
                   => last'.err = "InsufficientBalance")
             /\ (c.status # "active" => last'.err = "NotActive")
     /\ (last'.op = "allocate" /\ last'.err # "ok"
           => UNCHANGED <<commitments, owner_commitments, total_value_locked,
                          total_commitments, balances>>)]_vars

\* C18: whenever a commitment's status is settled or early_exit, its stored
\* current_value is 0.
C18_TerminalValueZero ==
  \A id \in DOMAIN commitments :
    commitments[id].status \in {"settled", "early_exit"}
      => commitments[id].current_value = 0

\* How often id occurs in the index.
Occurrences(index, id) == Cardinality({i \in 1..Len(index) : index[i] = id})

\* C19: in every reachable state the owner index lists each active
\* commitment of the owner exactly once and lists no commitment that is
\* settled, early-exited or violated.
C19_OwnerIndexActiveOnly ==
  \A id \in DOMAIN commitments :
    LET c == commitments[id] IN
    /\ (c.status = "active" => Occurrences(owner_commitments[c.owner], id) = 1)
    /\ (c.status \in Terminal
          => \A o \in Owners : Occurrences(owner_commitments[o], id) = 0)

\* C20: in every reachable state every commitment's current_value is >= 0;
\* update_value rejects a negative new_value and allocate an amount above
\* current_value.
C20_ValueNonNegative ==
  [][/\ \A id \in DOMAIN commitments' : commitments'[id].current_value >= 0
     /\ \A id \in DOMAIN commitments :
          /\ (Called("update_value", id) /\ last'.value < 0
                => last'.err # "ok" /\ UNCHANGED commitments)
          /\ (Called("allocate", id) /\ last'.value > commitments[id].current_value
                => last'.err # "ok" /\ UNCHANGED commitments)]_vars

\* The admin's update_value(-1) on an active commitment was turned away and
\* the value stayed where it was.
C20_Witness ==
  /\ last.op = "update_value"
  /\ last.caller = Admin
  /\ last.value = -1
  /\ last.err = "InvalidAmount"
  /\ last.id \in DOMAIN commitments
  /\ commitments[last.id].status = "active"
  /\ commitments[last.id].current_value >= 0

\* C21: every stored commitment's rules satisfy duration_days > 0,
\* 0 <= max_loss_percent <= 100, commitment_type in {safe, balanced,
\* aggressive}, 0 <= early_exit_penalty <= 100 and min_fee_threshold >= 0.
C21_StoredRulesValid ==
  \A id \in DOMAIN commitments :
    LET r == commitments[id].rules IN
    /\ r.duration_days > 0
    /\ r.max_loss_percent >= 0 /\ r.max_loss_percent <= 100
    /\ r.commitment_type \in {"safe", "balanced", "aggressive"}
    /\ r.early_exit_penalty >= 0 /\ r.early_exit_penalty <= 100
    /\ r.min_fee_threshold >= 0

\* The counters whose ids are compared with one another.
CounterRange == 0..12

\* C22: the ids of successful create_commitment calls are pairwise distinct
\* and come from the counter in creation order (the k-th created commitment
\* has the id of counter k - 1); TotalCommitments is the number of
\* commitments ever created and never decreases: settle, early_exit and
\* update_value leave it alone.
C22_IdsFromCounter ==
  [][/\ DOMAIN commitments' =
          {generate_commitment_id(k) : k \in 0..(total_commitments' - 1)}
     /\ Cardinality(DOMAIN commitments') = total_commitments'
     /\ total_commitments' >= total_commitments
     /\ (last'.op = "create_commitment" /\ last'.err = "ok"
           => /\ last'.id = generate_commitment_id(total_commitments)
              /\ last'.id \notin DOMAIN commitments
              /\ total_commitments' = total_commitments + 1
              /\ \A other \in DOMAIN commitments :
                   commitments[other].created_at <= commitments'[last'.id].created_at
              /\ \A j, k \in CounterRange :
                   j # k => generate_commitment_id(j) # generate_commitment_id(k))
     /\ (last'.op \in {"settle", "early_exit", "update_value"}
           => total_commitments' = total_commitments)]_vars

\* The second commitment has been created and got the id of counter 1.
C22_Witness ==
  /\ last.op = "create_commitment"
  /\ last.err = "ok"
  /\ last.id = <<"c", "_", 1>>
  /\ total_commitments = 2
  /\ DOMAIN commitments = {<<"c", "_", 0>>, <<"c", "_", 1>>}

\* n / d rounded toward zero, d > 0.
TowardZero(n, d) == IF n >= 0 THEN n \div d ELSE -((-n) \div d)

\* The fields of get_violation_details the two statements of C24 share.
DetailsExceptLoss(c, t, r) ==
  /\ r[2] = (r[4] > c.rules.max_loss_percent)
  /\ r[3] = (t >= c.expires_at)
  /\ r[1] = (r[2] \/ r[3])
  /\ r[5] = (IF c.expires_at - t > 0 THEN c.expires_at - t ELSE 0)
  /\ (c.status = "active" => r[1] = check_violations_result(c, t))

AdminOps == {"pause", "unpause", "set_allocation_contract", "add_updater",
             "remove_updater"}

\* C23: pause, unpause, set_allocation_contract, add_updater and
\* remove_updater succeed exactly when the caller is the stored admin; any
\* other caller fails with Unauthorized, and every caller with NotInitialized
\* while no admin is stored; a failing call leaves the paused flag, the
\* allocation contract and the authorized-updater set unchanged.
C23_AdminOnly ==
  [][last'.op \in AdminOps
     => /\ (last'.err = "ok" <=> (admin # NoAddress /\ last'.caller = admin))
        /\ (admin = NoAddress => last'.err = "NotInitialized")
        /\ (admin # NoAddress /\ last'.caller # admin
              => last'.err = "Unauthorized")
        /\ (last'.err # "ok"
              => UNCHANGED <<paused, allocation_contract, authorized_updaters>>)]_vars

\* add_updater by an address that is not the admin was turned away and the
\* updater set is still empty.
C23_Witness ==
  /\ last.op = "add_updater"
  /\ last.caller # admin
  /\ last.err = "Unauthorized"
  /\ authorized_updaters = <<>>


\* ------------------------------------------------------------------- C25
\* C25: the engine's initialize is one-time: called when an admin is stored
\* already, it fails with AlreadyInitialized and leaves the stored admin and
\* the stored ledger reference as the first call set them.
C25_EngineInitializeOnce ==
  [][(last'.op = "engine_initialize" /\ engine_admin # NoAddress)
       => /\ last'.err = "AlreadyInitialized"
          /\ UNCHANGED <<engine_admin, engine_core>>]_vars

\* ------------------------------------------------------------------- C26
\* C26: attest succeeds only for a verifier on the whitelist; an attest of
\* any other submitter fails with Unauthorized and leaves the attestation log
\* and the HealthState unchanged.
C26_AttestWhitelisted ==
  [][last'.op = "attest"
       => /\ (last'.err = "ok" => last'.caller \in verifier_whitelist)
          /\ (last'.caller \notin verifier_whitelist
                => /\ last'.err = "Unauthorized"
                   /\ UNCHANGED <<attestations, health_state>>)]_vars

\* ------------------------------------------------------------------- C27
LogOf(logs, id) == IF id \in DOMAIN logs THEN logs[id] ELSE <<>>

\* C27: the attestation log of a commitment is append-only and ordered: a
\* successful attest makes it exactly one entry longer, with the new
\* attestation last; every earlier entry keeps its place and its content; the
\* logs of the other commitments do not change; get_attestations returns the
\* log, which is the empty sequence when nothing was recorded.
C27_LogAppendOnly ==
  [][\A id \in EngineIds :
       LET old == LogOf(attestations, id)
           new == LogOf(attestations', id)
           appended == last'.op = "attest" /\ last'.err = "ok" /\ last'.id = id
       IN  /\ Len(new) >= Len(old)
           /\ SubSeq(new, 1, Len(old)) = old
           /\ (appended
                 => /\ Len(new) = Len(old) + 1
                    /\ new[Len(new)].commitment_id = id
                    /\ new[Len(new)].timestamp = now
                    /\ new[Len(new)].attestation_type = last'.value[1]
                    /\ new[Len(new)].data = last'.value[2]
                    /\ new[Len(new)].verified_by = last'.caller)
           /\ (~appended => new = old)
           /\ (last'.op = "get_attestations" /\ last'.id = id
                 => /\ last'.value = old
                    /\ (id \notin DOMAIN attestations => last'.value = <<>>))]_vars

\* An attest went through on a log that held an entry already.
C27_Witness ==
  /\ last.op = "attest" /\ last.err = "ok"
  /\ Len(LogOf(attestations, last.id)) >= 2

\* ------------------------------------------------------------------- C28
ParseAmount(text) == IF text = "10" THEN 10 ELSE IF text = "20" THEN 20 ELSE 0
FeesOf(states, id) ==
  IF id \in DOMAIN states THEN states[id].fees_generated ELSE 0

\* C28: fees_generated of a commitment is the sum of the amounts recorded for
\* it, by record_fees or by a fee_generation attestation (no total here comes
\* near the integer limit); no operation makes it smaller; get_health_metrics
\* reports it.
C28_FeesCumulative ==
  [][\A id \in EngineIds :
       LET old == FeesOf(health_state, id)
           new == FeesOf(health_state', id)
           done(op) == last'.op = op /\ last'.err = "ok" /\ last'.id = id
       IN  /\ new >= old
           /\ (done("record_fees") => new = old + last'.value)
           /\ (done("attest") /\ last'.value[1] = "fee_generation"
                 => new = old + ParseAmount(last'.value[2]["fee_amount"]))
           /\ (done("get_health_metrics")
                 => last'.value.fees_generated = old)]_vars

\* ------------------------------------------------------------------- C29
\* C29: the recorded drawdown is last-write-wins: get_health_metrics right
\* after a successful record_drawdown(id, d) reports drawdown_percent = d.
C29_DrawdownLastWriteWins ==
  [][(/\ last.op = "record_drawdown" /\ last.err = "ok"
      /\ last'.op = "get_health_metrics" /\ last'.err = "ok"
      /\ last'.id = last.id)
       => last'.value.drawdown_percent = last.value]_vars

\* ------------------------------------------------------------------- C30
\* C30: get_health_metrics computes drawdown_percent from the ledger's record
\* at the time of the call, as floor((amount - current_value) * 100 / amount),
\* and as 0 when amount <= 0 or current_value >= amount; it is never negative.
C30_DrawdownLive ==
  [][(last'.op = "get_health_metrics" /\ last'.err = "ok")
       => LET c == commitments[last'.id]
              d == last'.value.drawdown_percent
          IN  /\ d = IF c.amount <= 0 \/ c.current_value >= c.amount
                     THEN 0
                     ELSE ((c.amount - c.current_value) * 100) \div c.amount
              /\ d >= 0]_vars


\* ------------------------------------------------------------------- C31
ClaimDrawdown(c) ==
  IF c.amount <= 0 \/ c.current_value >= c.amount THEN 0
  ELSE ((c.amount - c.current_value) * 100) \div c.amount
ScoreOf(states, id) ==
  IF id \in DOMAIN states THEN states[id].compliance_score ELSE 0

\* C31: verify_compliance(id) returns true if and only if all six hold:
\* drawdown <= max_loss_percent; duration_days = 0 or now <= expires_at;
\* min_fee_threshold <= 0 or fees_generated >= min_fee_threshold; the cached
\* compliance score is 0 or at least 80; check_violations(id) is false; the
\* status is not violated.
C31_VerifyCompliance ==
  [][(/\ last'.op = "verify_compliance" /\ last'.err = "ok"
      /\ last'.id \in DOMAIN commitments)
       => LET id == last'.id
              c  == commitments[id]
          IN  last'.value =
                (/\ ClaimDrawdown(c) <= c.rules.max_loss_percent
                 /\ (c.rules.duration_days = 0 \/ now <= c.expires_at)
                 /\ (\/ c.rules.min_fee_threshold <= 0
                     \/ FeesOf(health_state, id) >= c.rules.min_fee_threshold)
                 /\ (ScoreOf(health_state, id) = 0 \/ ScoreOf(health_state, id) >= 80)
                 /\ ~check_violations_result(c, now)
                 /\ c.status # "violated")]_vars

\* ------------------------------------------------------------------- C32
\* C32: verify_compliance(id) returns true for every settled commitment and
\* false for every commitment that left by early exit.
C32_VerifyByStatus ==
  [][(/\ last'.op = "verify_compliance" /\ last'.err = "ok"
      /\ last'.id \in DOMAIN commitments)
       => LET c == commitments[last'.id] IN
          /\ (c.status = "settled" => last'.value = TRUE)
          /\ (c.status = "early_exit" => last'.value = FALSE)]_vars

\* ------------------------------------------------------------------- C33
ClampTo(x, lo, hi) == IF x < lo THEN lo ELSE IF x > hi THEN hi ELSE x
ClaimScore(id) ==
  LET c    == commitments[id]
      atts == LogOf(attestations, id)
      V    == Cardinality({i \in 1..Len(atts) :
                  ~atts[i].is_compliant \/ atts[i].attestation_type = "violation"})
      lossPercent == ((c.amount - c.current_value) * 100) \div c.amount
      over == IF lossPercent > c.rules.max_loss_percent
              THEN lossPercent - c.rules.max_loss_percent ELSE 0
      ratio == (FeesOf(health_state, id) * 100) \div c.rules.min_fee_threshold
      feeBonus == IF c.rules.min_fee_threshold > 0
                  THEN (IF ratio > 100 THEN 100 ELSE ratio) ELSE 0
      durationBonus ==
        IF c.expires_at > c.created_at /\ c.created_at <= now /\ now <= c.expires_at
        THEN 10 ELSE 0
  IN  ClampTo(100 - 20 * V - over + feeBonus + durationBonus, 0, 100)

\* C33: calculate_compliance_score(id) returns
\* clamp(100 - 20 V - max(0, lossPercent - max_loss_percent) + feeBonus
\*       + durationBonus, 0, 100).
C33_ScoreFormula ==
  [][(last'.op = "calculate_compliance_score" /\ last'.err = "ok")
       => last'.value = ClaimScore(last'.id)]_vars

\* ------------------------------------------------------------------- C34
\* C34: calculate_compliance_score(id) returns a value in 0..100 and stores
\* it in the HealthState of the commitment; a get_health_metrics(id) right
\* after it reports that value as compliance_score.
C34_ScoreStored ==
  [][/\ (last'.op = "calculate_compliance_score" /\ last'.err = "ok"
          => /\ 0 <= last'.value /\ last'.value <= 100
             /\ ScoreOf(health_state', last'.id) = last'.value)
     /\ ((/\ last.op = "calculate_compliance_score" /\ last.err = "ok"
          /\ last'.op = "get_health_metrics" /\ last'.err = "ok"
          /\ last'.id = last.id)
          => last'.value.compliance_score = last.value)]_vars

\* ------------------------------------------------------------------- C35
\* The token is the one an Active commitment holds as nft_token_id.
BoundToActive(token_id) ==
  \E id \in DOMAIN commitments :
    /\ commitments[id].nft_token_id = token_id
    /\ commitments[id].status = "active"

\* C35: a position token bound to an Active commitment cannot be transferred:
\* transfer of it fails, as NFTLocked when its owner sends it to another
\* address, and leaves the owner of the token, the balances and the token
\* lists of both addresses unchanged.
C35_TransferLocked ==
  [][(last'.op = "nft_transfer" /\ BoundToActive(last'.id))
       => /\ last'.err # "ok"
          /\ (nfts[last'.id].owner = last'.caller /\ last'.value # last'.caller)
                => last'.err = "NftNFTLocked"
          /\ UNCHANGED <<nfts, owner_balance, owner_tokens>>]_vars

C37_CustodyCoversActive ==
  balances[CoreAddress] >= SumActiveValue(DOMAIN commitments)

CreationFields(c) ==
  <<c.commitment_id, c.owner, c.amount, c.asset_address, c.rules,
    c.created_at, c.expires_at>>

\* C39: a stored commitment is never deleted and its id, owner, locked
\* amount, asset, rules, created_at and expires_at never change; and
\* get_commitment of a stored id succeeds and returns the stored record.
C39_RecordsKept ==
  [][/\ \A id \in DOMAIN commitments :
          /\ id \in DOMAIN commitments'
          /\ CreationFields(commitments'[id]) = CreationFields(commitments[id])
          /\ commitments[id].commitment_id = id
     /\ (last'.op = "get_commitment" /\ last'.id \in DOMAIN commitments)
          => /\ last'.err = "ok"
             /\ last'.value = commitments[last'.id]]_vars

\* get_commitment returned a record that has left the Active status with a
\* value other than the locked amount, while a second commitment is stored.
C39_Witness ==
  /\ last.op = "get_commitment" /\ last.err = "ok"
  /\ last.value.status # "active"
  /\ last.value.current_value # last.value.amount
  /\ last.value.amount = 1000
  /\ \E id \in DOMAIN commitments : id # last.id

\* ------------------------------------------------------------------- C40
ReadOnlyOperations ==
  {"check_violations", "get_violation_details", "attest", "record_fees",
   "record_drawdown", "calculate_compliance_score", "verify_compliance",
   "get_health_metrics", "get_attestations"}

\* C40: check_violations, get_violation_details and every operation of the
\* attestation engine leave the state of the ledger unchanged: the stored
\* commitments, the owner index, TotalValueLocked, TotalCommitments, the
\* pause flag, the latch and the access configuration.
C40_ReadOnly ==
  [][last'.op \in ReadOnlyOperations => UNCHANGED ledger]_vars

\* check_violations answered true for a stored commitment that is still
\* Active in the ledger, after the engine has logged an attestation for it.
C40_Witness ==
  /\ last.op = "check_violations" /\ last.err = "ok" /\ last.value = TRUE
  /\ commitments[last.id].status = "active"
  /\ last.id \in DOMAIN attestations /\ Len(attestations[last.id]) > 0
  /\ total_value_locked > 0

====
